---- MODULE Spec2Model ----
(***************************************************************************)
(* Habitat-partitioning pipeline: the data generator (generate_data.py),   *)
(* the statistical analyzer (analyze_habitat.py), the report renderer      *)
(* (visualize_results.py) and the pipeline entry point (main.py).          *)
(*                                                                         *)
(* Numbers.  Continuous covariates are kept in hundredths (7.4 -> 740),    *)
(* probabilities in percent (0.85 -> 85).  Rates, means and the chi-square *)
(* statistic are exact fractions [num, den] in lowest terms; a value the   *)
(* code leaves undefined (NaN) is the fraction with den = 0.               *)
(***************************************************************************)
EXTENDS Integers, Sequences, FiniteSets, TLC

VARIABLES
    stream,     \* output sequence of numpy's global generator after seed(42)
    rng_pos,    \* position of the global generator in that sequence
    seeded,     \* TRUE while nothing was drawn since np.random.seed(42)
    n_samples,  \* the n_samples argument of the generation runs
    ret,        \* the last return of generate_habitat_data, or NoRun
    prev,       \* the return before that, or NoRun
    an_df,      \* HabitatPreferenceAnalysis.df, or NoObject
    results,    \* HabitatPreferenceAnalysis.results
    report,     \* the persisted analysis report (JSON), or NoFile
    viz_df,     \* HabitatVisualization.df, or NoObject
    plots,      \* the chart files written under plots/
    pc,         \* position of main()
    main_df,    \* main's local df, or NoObject
    data_file,  \* the persisted dataset (CSV), or NoFile
    raised      \* the exception the last invocation raised, or "none"

vars == << stream, rng_pos, seeded, n_samples, ret, prev, an_df, results,
           report, viz_df, plots, pc, main_df, data_file, raised >>

genVars == << stream, rng_pos, seeded, n_samples, ret, prev >>
objVars == << an_df, results, report, viz_df, plots >>
mainVars == << pc, main_df, data_file >>

\* records, so that they compare with the records they stand in for
NoRun == [absent |-> "run"]
NoObject == [absent |-> "object"]
NoFile == [absent |-> "file"]

(***************************************************************************)
(* Bounds                                                                  *)
(***************************************************************************)
\* largest n_samples a generation run is explored with
MaxSamples == 6
\* period of the explored generator output sequences
Period == 4
\* largest number of rows of an input dataset of the analyzer and renderer
MaxRows == 3
\* largest number of rows of an input dataset that lacks a column
MalformedRows == 1
\* the sample count the pipeline is explored with (main passes 500)
PipelineSamples == 6

(***************************************************************************)
(* Small helpers                                                           *)
(***************************************************************************)
Range(s) == { s[i] : i \in DOMAIN s }

Abs(x) == IF x < 0 THEN -x ELSE x

RECURSIVE GCD(_, _)
GCD(a, b) == IF b = 0 THEN a ELSE GCD(b, a % b)

\* the fraction num/den (den > 0) in lowest terms
Frac(num, den) ==
    LET g == GCD(Abs(num), den)
    IN  [num |-> num \div g, den |-> den \div g]

FracLess(a, b) == a.num * b.den < b.num * a.den

RECURSIVE SumSeq(_)
SumSeq(s) == IF s = << >> THEN 0 ELSE Head(s) + SumSeq(Tail(s))

(***************************************************************************)
(* generate_data.py                                                        *)
(***************************************************************************)
water_types == << "Clear spring fed pond", "vegetated pond", "Oxbow analog" >>
species == << "RGS", "RES", "PH" >>

env_features == << "salinity_ppt", "pH", "temperature_C", "dissolved_oxygen_mg_L" >>

PresentCol(sp) ==
    CASE sp = "RGS" -> "RGS_present"
      [] sp = "RES" -> "RES_present"
      [] sp = "PH"  -> "PH_present"

Columns == << "observation_id", "water_body_type", "salinity_ppt", "pH",
              "temperature_C", "dissolved_oxygen_mg_L",
              "RGS_present", "RES_present", "PH_present" >>

\* The generator's raw outputs are explored at three levels.  As a standard
\* normal deviate a level is a deep lower tail, the centre or a deep upper
\* tail; as a uniform draw on [0, 1) it is 0.01, 0.40 or 0.95.
Levels == 1 .. 3
ZTable == << -8, 0, 8 >>
UTable == << 1, 40, 95 >>

Streams == [0 .. Period - 1 -> Levels]

\* np.random.seed(42): the generator restarts its output sequence
SeedPos == 0

\* a seed call without the fixed seed value leaves the generator where it is
SeedUnfixed(pos) == pos

Seed(pos) == SeedPos

\* np.random.normal(mu, sigma, size)[i], drawn at position p
Normal(mu, sigma, p) == mu + sigma * ZTable[stream[p % Period]]

\* np.random.random(), drawn at position p
Random(p) == UTable[stream[p % Period]]

\* a clip that forgets the lower limit
ClipUpperOnly(x, lo, hi) == IF x > hi THEN hi ELSE x

\* np.clip(x, lo, hi)
Clip(x, lo, hi) == IF x < lo THEN lo ELSE IF x > hi THEN hi ELSE x

\* mean and standard deviation of the four covariates per water type
EnvParams(wt) ==
    CASE wt = "Clear spring fed pond" ->
            [sal |-> << 20, 10 >>, ph |-> << 740, 30 >>,
             temp |-> << 1200, 300 >>, do |-> << 900, 100 >>]
      [] wt = "vegetated pond" ->
            [sal |-> << 60, 40 >>, ph |-> << 700, 50 >>,
             temp |-> << 1600, 400 >>, do |-> << 750, 150 >>]
      [] OTHER ->
            [sal |-> << 100, 60 >>, ph |-> << 780, 60 >>,
             temp |-> << 1700, 400 >>, do |-> << 720, 130 >>]

rgs_prob(wt) ==
    IF wt = "Clear spring fed pond" THEN 85
    ELSE IF wt = "Oxbow analog" THEN 30 ELSE 5

res_prob(wt) ==
    IF wt = "Oxbow analog" THEN 90
    ELSE IF wt = "vegetated pond" THEN 25 ELSE 2

ph_prob(wt) ==
    IF wt = "vegetated pond" THEN 85
    ELSE IF wt = "Oxbow analog" THEN 50 ELSE 45

\* 1 if np.random.random() < prob else 0
Bernoulli(prob, p) == IF Random(p) < prob THEN 1 ELSE 0

\* def generate_habitat_data(n_samples=500), and main's n_samples=500
DefaultSamples == 500

\* n_habitat_samples = n_samples // 3
HabitatSamples(n) == n \div 3

\* The observation i (0-based) of one water type.  The four covariate arrays
\* of k values each are drawn first, from position base on; observation i
\* then draws its three presence indicators.
Observation(wt, i, k, base, n_before) ==
    LET par == EnvParams(wt)
        at  == base + 4 * k + 3 * i
    IN  [ observation_id        |-> n_before + i + 1,
          water_body_type       |-> wt,
          salinity_ppt          |->
              Clip(Normal(par.sal[1], par.sal[2], base + i), 0, 4000),
          pH                    |->
              Clip(Normal(par.ph[1], par.ph[2], base + k + i), 600, 900),
          temperature_C         |->
              Clip(Normal(par.temp[1], par.temp[2], base + 2 * k + i), 0, 3500),
          dissolved_oxygen_mg_L |->
              Clip(Normal(par.do[1], par.do[2], base + 3 * k + i), 200, 1200),
          RGS_present           |-> Bernoulli(rgs_prob(wt), at),
          RES_present           |-> Bernoulli(res_prob(wt), at + 1),
          PH_present            |-> Bernoulli(ph_prob(wt), at + 2) ]

\* the body of the loop over water_types: data after the water types h..3,
\* given the data so far and the generator position
RECURSIVE GenerateFrom(_, _, _, _)
GenerateFrom(h, n, data, pos) ==
    IF h > Len(water_types) THEN [data |-> data, pos |-> pos]
    ELSE LET k == HabitatSamples(n)
             obs == [i \in 1 .. k |->
                        Observation(water_types[h], i - 1, k, pos, Len(data))]
         IN  GenerateFrom(h + 1, n, data \o obs, pos + 7 * k)

\* generate_habitat_data(n): the DataFrame returned and the generator after
generate_habitat_data(n, pos) ==
    LET g == GenerateFrom(1, n, << >>, pos)
    IN  [df  |-> [columns |-> IF g.data = << >> THEN << >> ELSE Columns,
                  rows    |-> g.data],
         pos |-> g.pos]

\* initial values of the variables a specification does not use
IdleGen ==
    /\ stream = [p \in 0 .. Period - 1 |-> 1]
    /\ rng_pos = SeedPos
    /\ seeded = TRUE
    /\ n_samples = 0
    /\ ret = NoRun
    /\ prev = NoRun

IdleObjects ==
    /\ an_df = NoObject
    /\ results = << >>
    /\ report = NoFile
    /\ viz_df = NoObject
    /\ plots = {}

IdleMain ==
    /\ pc = "idle"
    /\ main_df = NoObject
    /\ data_file = NoFile

(***************************************************************************)
(* Generation runs: the module is loaded (which seeds the generator) and   *)
(* generate_habitat_data is invoked, any number of times each.             *)
(***************************************************************************)
InitGen ==
    /\ stream \in Streams
    /\ n_samples \in (0 .. MaxSamples) \cup {DefaultSamples}
    /\ rng_pos = Seed(0)
    /\ seeded = TRUE
    /\ ret = NoRun
    /\ prev = NoRun
    /\ IdleObjects
    /\ IdleMain
    /\ raised = "none"

\* import generate_data (a fresh interpreter): np.random.seed(42)
ImportModule ==
    /\ rng_pos' = Seed(rng_pos)
    /\ seeded' = TRUE
    /\ raised' = "none"
    /\ UNCHANGED << stream, n_samples, ret, prev >>
    /\ UNCHANGED objVars
    /\ UNCHANGED mainVars

\* df = generate_habitat_data(n_samples)
Generate ==
    LET g == generate_habitat_data(n_samples, rng_pos)
    IN  /\ ret' = [n |-> n_samples, at_seed |-> seeded, df |-> g.df]
        /\ prev' = ret
        /\ rng_pos' = g.pos % Period
        /\ seeded' = (seeded /\ g.pos = rng_pos)
        /\ raised' = "none"
        /\ UNCHANGED << stream, n_samples >>
        /\ UNCHANGED objVars
        /\ UNCHANGED mainVars

NextGen == ImportModule \/ Generate

SpecGen == InitGen /\ [][NextGen]_vars

(***************************************************************************)
(* DataFrames and the persisted dataset                                    *)
(*                                                                         *)
(* A DataFrame is [columns, rows]: the column names in order and one       *)
(* record per row.  A CSV file is [header, lines]: the header row and one  *)
(* sequence of cells per row, in header order.                             *)
(***************************************************************************)
HasCol(df, c) == c \in Range(df.columns)

Column(df, c) == [i \in DOMAIN df.rows |-> df.rows[i][c]]

\* Series.unique(): the distinct values in order of first appearance
RECURSIVE UniqueFrom(_, _)
UniqueFrom(s, seen) ==
    IF s = << >> THEN seen
    ELSE IF Head(s) \in Range(seen) THEN UniqueFrom(Tail(s), seen)
         ELSE UniqueFrom(Tail(s), Append(seen, Head(s)))

Unique(s) == UniqueFrom(s, << >>)

\* a subset that forgets the filter
WholeTable(df, wt) == df.rows

\* df[df['water_body_type'] == water_type]
HabitatSubset(df, wt) ==
    SelectSeq(df.rows, LAMBDA r : r.water_body_type = wt)

\* df.to_csv(path, index=False)
to_csv(df) ==
    [header |-> df.columns,
     lines  |-> [i \in DOMAIN df.rows |->
                    [j \in DOMAIN df.columns |-> df.rows[i][df.columns[j]]]]]

\* the position of column c in a header
ColumnIndex(header, c) == CHOOSE j \in DOMAIN header : header[j] = c

\* pd.read_csv(path): EmptyDataError when the file has no header row
read_csv(file) ==
    IF file.header = << >>
    THEN [raised |-> "EmptyDataError", df |-> NoObject]
    ELSE [raised |-> "none",
          df |-> [columns |-> file.header,
                  rows |-> [i \in DOMAIN file.lines |->
                               [c \in Range(file.header) |->
                                   file.lines[i][ColumnIndex(file.header, c)]]]]]

(***************************************************************************)
(* analyze_habitat.py                                                      *)
(***************************************************************************)
NoResults == [k \in {} |-> 0]

\* self.results[key] = value
Put(res, key, value) ==
    [k \in DOMAIN res \cup {key} |-> IF k = key THEN value ELSE res[k]]

\* the undefined float
NaN == [num |-> 0, den |-> 0]

\* pd.crosstab(df['water_body_type'], df[f'{species}_present']): one row per
\* habitat type and one column per presence value that occur in the data
crosstab(df, col) ==
    LET index == Range(Column(df, "water_body_type"))
        cols  == Range(Column(df, col))
    IN  [index |-> index,
         cols  |-> cols,
         count |-> [h \in index |->
                      [v \in cols |->
                          Len(SelectSeq(df.rows,
                              LAMBDA r : r.water_body_type = h /\ r[col] = v))]]]

\* DataFrame.to_dict(): {column: {index: value}}
table_to_dict(t) == [v \in t.cols |-> [h \in t.index |-> t.count[h][v]]]

\* upper 5% points of the chi-square distribution, in thousandths
CriticalMilli(dof) ==
    CASE dof = 1 -> 3841
      [] dof = 2 -> 5991
      [] dof = 3 -> 7815
      [] OTHER   -> 9488

\* the sum and the product of the values of f over the set S
RECURSIVE SumOver(_, _)
SumOver(f, S) ==
    IF S = {} THEN 0
    ELSE LET x == CHOOSE y \in S : TRUE
         IN  f[x] + SumOver(f, S \ {x})

RECURSIVE ProdOver(_, _)
ProdOver(f, S) ==
    IF S = {} THEN 1
    ELSE LET x == CHOOSE y \in S : TRUE
         IN  f[x] * ProdOver(f, S \ {x})

\* the marginal totals of a table and its grand total
RowTotal(t, h) == SumOver(t.count[h], t.cols)

ColTotal(t, v) == SumOver([h \in t.index |-> t.count[h][v]], t.index)

Total(t) == SumOver([h \in t.index |-> RowTotal(t, h)], t.index)

\* the product of all marginal totals
MarginProduct(t) ==
    ProdOver([h \in t.index |-> RowTotal(t, h)], t.index)
        * ProdOver([v \in t.cols |-> ColTotal(t, v)], t.cols)

\* the deviation |observed - expected| of a cell, in units of 1/(2N), after
\* Yates' continuity correction when it applies (dof = 1): the observed
\* count is moved towards the expected one by min(0.5, |difference|)
Deviation(o, r, c, n, dof) ==
    LET d == Abs(2 * r * c - 2 * n * o)
    IN  IF dof = 1 THEN (IF d > n THEN d - n ELSE 0) ELSE d

Square(x) == x * x

\* (observed - expected)^2 / expected of a cell, in units of 1/(4 N P),
\* where expected = r * c / n and P is the product of all marginal totals
CellTerm(o, r, c, n, P, dof) ==
    Square(Deviation(o, r, c, n, dof)) * (P \div (r * c))

ChiSquareOver(t, dof, n, P) ==
    Frac(SumOver([h \in t.index |->
                     SumOver([v \in t.cols |->
                                 CellTerm(t.count[h][v], RowTotal(t, h),
                                          ColTotal(t, v), n, P, dof)],
                             t.cols)],
                 t.index),
         4 * n * P)

\* sum over the cells of (observed - expected)^2 / expected
ChiSquare(t, dof) == ChiSquareOver(t, dof, Total(t), MarginProduct(t))

\* degrees of freedom computed from the number of cells
DofCells(t) == Cardinality(t.index) * Cardinality(t.cols) - 1

\* degrees of freedom of a table
Dof(t) == (Cardinality(t.index) - 1) * (Cardinality(t.cols) - 1)

\* the return of chi2_contingency; the p-value is kept as its comparison
\* with 0.05
TestResult(chi2, dof) ==
    [raised |-> "none", chi2 |-> chi2, dof |-> dof,
     p_below_alpha |-> chi2.num * 1000 > CriticalMilli(dof) * chi2.den]

\* scipy.stats.chi2_contingency(observed): ValueError on a table without
\* cells; statistic 0 and p-value 1 when there are no degrees of freedom
chi2_contingency(t) ==
    IF t.index = {} \/ t.cols = {}
    THEN [raised |-> "ValueError"]
    ELSE IF Dof(t) = 0
         THEN [raised |-> "none", chi2 |-> Frac(0, 1), dof |-> 0,
               p_below_alpha |-> FALSE]
         ELSE TestResult(ChiSquare(t, Dof(t)), Dof(t))

\* contingency_results[species] for the table t and the test's return x
ContingencyEntry(t, x) ==
    IF x.raised # "none" THEN [raised |-> x.raised]
    ELSE [raised |-> "none",
          entry  |-> [contingency_table  |-> table_to_dict(t),
                      chi2_statistic     |-> x.chi2,
                      degrees_of_freedom |-> x.dof,
                      significant        |-> x.p_below_alpha]]

TableEntry(t) == ContingencyEntry(t, chi2_contingency(t))

\* the body of the loop of contingency_analysis for one species column
SpeciesEntry(df, col) ==
    IF ~HasCol(df, "water_body_type") \/ ~HasCol(df, col)
    THEN [raised |-> "KeyError"]
    ELSE TableEntry(crosstab(df, col))

\* the loop of contingency_analysis over self.species, from species i on
RECURSIVE ContingencyFrom(_, _, _)
ContingencyNext(df, i, acc, e) ==
    IF e.raised # "none" THEN [raised |-> e.raised, value |-> acc]
    ELSE ContingencyFrom(df, i + 1, Put(acc, species[i], e.entry))

ContingencyFrom(df, i, acc) ==
    IF i > Len(species) THEN [raised |-> "none", value |-> acc]
    ELSE ContingencyNext(df, i, acc, SpeciesEntry(df, PresentCol(species[i])))

\* self.results[key] = value once the loop that computes value has ended
\* without an exception
Store(res, key, out) ==
    IF out.raised # "none" THEN [raised |-> out.raised, results |-> res]
    ELSE [raised |-> "none", results |-> Put(res, key, out.value)]

\* contingency_analysis: self.results is assigned after the loop only
contingency_analysis(df, res) ==
    Store(res, "contingency_analysis", ContingencyFrom(df, 1, NoResults))

\* the occurrence record of one species in one habitat subset
OccurrenceRecord(sp, wt, subset) ==
    LET occurrences == SumSeq([i \in DOMAIN subset |-> subset[i][PresentCol(sp)]])
        n_observations == Len(subset)
    IN  [species         |-> sp,
         water_body_type |-> wt,
         occurrences     |-> occurrences,
         n_observations  |-> n_observations,
         occurrence_rate |-> Frac(occurrences * 100, n_observations)]

\* the loop of calculate_occurrence_rates over the habitat types
RECURSIVE OccurrenceFrom(_, _, _)
OccurrenceFrom(df, hs, acc) ==
    IF hs = << >> THEN acc
    ELSE LET subset == HabitatSubset(df, Head(hs))
         IN  OccurrenceFrom(df, Tail(hs),
                 acc \o [i \in DOMAIN species |->
                            OccurrenceRecord(species[i], Head(hs), subset)])

calculate_occurrence_rates(df, res) ==
    IF ~HasCol(df, "water_body_type")
    THEN [raised |-> "KeyError", results |-> res]
    ELSE LET hs == Unique(Column(df, "water_body_type"))
         IN  IF hs # << >> /\ \E i \in DOMAIN species : ~HasCol(df, PresentCol(species[i]))
             THEN [raised |-> "KeyError", results |-> res]
             ELSE [raised |-> "none",
                   results |-> Put(res, "occurrence_rates",
                                   OccurrenceFrom(df, hs, << >>))]

\* Series.mean()
Mean(xs) == Frac(SumSeq(xs), Len(xs))

\* a standard deviation with divisor n, which is 0 for one value
StdPopulation(xs) ==
    LET n == Len(xs)
        s == SumSeq(xs)
        q == SumSeq([i \in DOMAIN xs |-> xs[i] * xs[i]])
    IN  Frac(n * q - s * s, n * n)

\* Series.std() (divisor n - 1), kept as its square; NaN for one value
Std(xs) ==
    LET n == Len(xs)
        s == SumSeq(xs)
        q == SumSeq([i \in DOMAIN xs |-> xs[i] * xs[i]])
    IN  IF n = 1 THEN NaN ELSE Frac(n * q - s * s, n * (n - 1))

HabitatStats(subset) ==
    LET col(c) == [i \in DOMAIN subset |-> subset[i][c]]
    IN  [salinity_mean         |-> Mean(col("salinity_ppt")),
         salinity_std          |-> Std(col("salinity_ppt")),
         pH_mean               |-> Mean(col("pH")),
         pH_std                |-> Std(col("pH")),
         temperature_mean      |-> Mean(col("temperature_C")),
         temperature_std       |-> Std(col("temperature_C")),
         dissolved_oxygen_mean |-> Mean(col("dissolved_oxygen_mg_L")),
         dissolved_oxygen_std  |-> Std(col("dissolved_oxygen_mg_L"))]

habitat_similarity(df, res) ==
    IF ~HasCol(df, "water_body_type")
    THEN [raised |-> "KeyError", results |-> res]
    ELSE LET hs == Unique(Column(df, "water_body_type"))
         IN  IF hs # << >> /\ \E j \in DOMAIN env_features : ~HasCol(df, env_features[j])
             THEN [raised |-> "KeyError", results |-> res]
             ELSE [raised |-> "none",
                   results |-> Put(res, "habitat_characteristics",
                                   [h \in Range(hs) |->
                                       HabitatStats(HabitatSubset(df, h))])]

\* a maximum that keeps the last of several equal maxima
RECURSIVE LastMax(_, _)
LastMax(s, best) ==
    IF s = << >> THEN best
    ELSE IF ~FracLess(Head(s).occurrence_rate, best.occurrence_rate)
         THEN LastMax(Tail(s), Head(s))
         ELSE LastMax(Tail(s), best)

\* max(species_data, key=occurrence_rate) after its first element: a later
\* element replaces the best one only when its key is strictly greater
RECURSIVE MaxFrom(_, _)
MaxFrom(s, best) ==
    IF s = << >> THEN best
    ELSE IF FracLess(best.occurrence_rate, Head(s).occurrence_rate)
         THEN MaxFrom(Tail(s), Head(s))
         ELSE MaxFrom(Tail(s), best)

\* the loop of summarize_findings over self.species, from species i on
RECURSIVE SummaryFrom(_, _, _)
SummaryFrom(res, i, acc) ==
    IF i > Len(species) THEN [raised |-> "none", value |-> acc]
    ELSE IF "occurrence_rates" \notin DOMAIN res
    THEN [raised |-> "KeyError", value |-> acc]
    ELSE LET species_data ==
                 SelectSeq(res["occurrence_rates"],
                           LAMBDA r : r.species = species[i])
         IN  IF species_data = << >>
             THEN [raised |-> "ValueError", value |-> acc]
             ELSE LET preferred == MaxFrom(Tail(species_data), Head(species_data))
                  IN  SummaryFrom(res, i + 1,
                          Put(acc, species[i],
                              [preferred_habitat |-> preferred.water_body_type,
                               preference_rate   |-> preferred.occurrence_rate]))

summarize_findings(res) ==
    Store(res, "summary", SummaryFrom(res, 1, NoResults))

\* the analyses with summarize_findings ahead of calculate_occurrence_rates
SummaryBeforeRates(i, df, res) ==
    CASE i = 1 -> contingency_analysis(df, res)
      [] i = 2 -> summarize_findings(res)
      [] i = 3 -> calculate_occurrence_rates(df, res)
      [] i = 4 -> habitat_similarity(df, res)

\* the i-th analysis run_full_analysis invokes
AnalysisStep(i, df, res) ==
    CASE i = 1 -> contingency_analysis(df, res)
      [] i = 2 -> calculate_occurrence_rates(df, res)
      [] i = 3 -> habitat_similarity(df, res)
      [] i = 4 -> summarize_findings(res)

\* run_full_analysis from analysis i on; an exception ends it
RECURSIVE AnalysesFrom(_, _, _)
AnalysesNext(i, df, out) ==
    IF out.raised # "none" THEN out
    ELSE AnalysesFrom(i + 1, df, out.results)

AnalysesFrom(i, df, res) ==
    IF i > 4 THEN [raised |-> "none", results |-> res]
    ELSE AnalysesNext(i, df, AnalysisStep(i, df, res))

\* run_full_analysis: the four analyses in order
run_full_analysis(df, res) == AnalysesFrom(1, df, res)

\* json.dump(self.results): the keys of a JSON object are strings, so the
\* presence values that key a contingency table are written as "0" and "1"
to_json(res) ==
    [k \in DOMAIN res |->
        IF k = "contingency_analysis"
        THEN [sp \in DOMAIN res[k] |->
                 [f \in DOMAIN res[k][sp] |->
                     IF f = "contingency_table"
                     THEN LET t == res[k][sp][f]
                          IN  [s \in { ToString(v) : v \in DOMAIN t } |->
                                  t[CHOOSE v \in DOMAIN t : ToString(v) = s]]
                     ELSE res[k][sp][f]]]
        ELSE res[k]]

(***************************************************************************)
(* visualize_results.py                                                    *)
(*                                                                         *)
(* A plot method either writes its chart file or raises.  Each operator    *)
(* gives the set of outcomes ("none": the file is written); where the      *)
(* outcome is left to the plotting library (a chart of no data at all),    *)
(* both are possible.                                                      *)
(***************************************************************************)
Charts == << "occurrence_by_habitat.png", "habitat_preference_heatmap.png",
             "environmental_conditions.png", "species_distribution.png",
             "species_cooccurrence.png" >>

\* the keys of the colors dict of plot_species_distribution
DistributionColors == { "Clear spring fed pond", "vegetated pond", "Oxbow analog" }

\* the number of panels of plot_co_occurrence: plt.subplots(1, 3)
CoOccurrencePanels == 3

\* self.water_types
WaterTypes(df) == Unique(Column(df, "water_body_type"))

MissingSpeciesColumn(df) ==
    \E i \in DOMAIN species : ~HasCol(df, PresentCol(species[i]))

MissingEnvColumn(df) ==
    \E j \in DOMAIN env_features : ~HasCol(df, env_features[j])

plot_occurrence_by_habitat(df) ==
    IF WaterTypes(df) = << >> \/ MissingSpeciesColumn(df)
    THEN {"KeyError"} ELSE {"none"}

plot_heatmap(df) ==
    IF WaterTypes(df) = << >> THEN {"none", "ValueError"}
    ELSE IF MissingSpeciesColumn(df) THEN {"KeyError"} ELSE {"none"}

plot_environmental_conditions(df) ==
    IF WaterTypes(df) = << >> THEN {"none", "ValueError"}
    ELSE IF MissingEnvColumn(df) THEN {"KeyError"} ELSE {"none"}

plot_species_distribution(df) ==
    IF MissingSpeciesColumn(df) THEN {"KeyError"}
    ELSE IF \E h \in Range(WaterTypes(df)) : h \notin DistributionColors
         THEN {"KeyError"} ELSE {"none"}

plot_co_occurrence(df) ==
    IF WaterTypes(df) # << >> /\ MissingSpeciesColumn(df) THEN {"KeyError"}
    ELSE IF Len(WaterTypes(df)) > CoOccurrencePanels THEN {"IndexError"}
         ELSE {"none"}

PlotOutcomes(i, df) ==
    CASE i = 1 -> plot_occurrence_by_habitat(df)
      [] i = 2 -> plot_heatmap(df)
      [] i = 3 -> plot_environmental_conditions(df)
      [] i = 4 -> plot_species_distribution(df)
      [] i = 5 -> plot_co_occurrence(df)

\* generate_all_plots from plot i on: the possible [raised, plots]
RECURSIVE AllPlotsFrom(_, _, _)
AllPlotsFrom(i, df, written) ==
    IF i > Len(Charts) THEN { [raised |-> "none", plots |-> written] }
    ELSE UNION { IF o = "none"
                 THEN AllPlotsFrom(i + 1, df, written \cup {Charts[i]})
                 ELSE { [raised |-> o, plots |-> written] }
                 : o \in PlotOutcomes(i, df) }

generate_all_plots(df, written) == AllPlotsFrom(1, df, written)

(***************************************************************************)
(* Input datasets of the analyzer and the renderer                         *)
(***************************************************************************)
InputLabels == { "A", "Clear spring fed pond", "vegetated pond" }

\* The presence indicators <<RGS, RES, PH>> of an input row.  Each species
\* column ranges over every 0/1 sequence; the analyzer treats the species
\* columns independently of each other.
PresencePatterns == { << 1, 0, 0 >>, << 0, 1, 1 >> }

\* row i of an input dataset; the covariates vary with the row
InputRow(i, label, pat) ==
    [ observation_id        |-> i,
      water_body_type       |-> label,
      salinity_ppt          |-> 10 * i,
      pH                    |-> 700 + 20 * i * i,
      temperature_C         |-> 1500 - 100 * i,
      dissolved_oxygen_mg_L |-> 600 + 50 * i,
      RGS_present           |-> pat[1],
      RES_present           |-> pat[2],
      PH_present            |-> pat[3] ]

\* the datasets of at most max rows that have every column
Conforming(max) ==
    UNION { { [columns |-> Columns,
               rows |-> [i \in 1 .. len |-> InputRow(i, labels[i], pats[i])]]
               : labels \in [1 .. len -> InputLabels],
                 pats \in [1 .. len -> PresencePatterns] }
            : len \in 0 .. max }

ConformingDatasets == Conforming(MaxRows)

\* the columns a malformed input lacks
MissingColumns == { "water_body_type", "RES_present", "temperature_C" }

DropColumn(df, c) ==
    [columns |-> SelectSeq(df.columns, LAMBDA x : x # c),
     rows    |-> [i \in DOMAIN df.rows |->
                    [x \in DOMAIN df.rows[i] \ {c} |-> df.rows[i][x]]]]

MalformedDatasets ==
    { DropColumn(d, c) : d \in Conforming(MalformedRows), c \in MissingColumns }

InputFiles == { to_csv(d) : d \in ConformingDatasets \cup MalformedDatasets }

(***************************************************************************)
(* The analyzer and the renderer as objects: one of them is constructed    *)
(* over a persisted dataset and its methods are invoked in any order.      *)
(***************************************************************************)
Init ==
    /\ IdleGen
    /\ IdleMain
    /\ results = NoResults
    /\ report = NoFile
    /\ plots = {}
    /\ raised = "none"
    /\ \E file \in InputFiles :
          \/ /\ an_df = read_csv(file).df
             /\ viz_df = NoObject
          \/ /\ HasCol(read_csv(file).df, "water_body_type")
             /\ an_df = NoObject
             /\ viz_df = read_csv(file).df

\* an analyzer method that returns out = [raised, results]
AnalyzerCall(out) ==
    /\ an_df # NoObject
    /\ results' = out.results
    /\ raised' = out.raised
    /\ UNCHANGED << an_df, report, viz_df, plots >>
    /\ UNCHANGED genVars
    /\ UNCHANGED mainVars

ContingencyAnalysis ==
    AnalyzerCall(contingency_analysis(an_df, results))

CalculateOccurrenceRates ==
    AnalyzerCall(calculate_occurrence_rates(an_df, results))

\* habitat_similarity narrowing self.df to the covariate columns in place
HabitatSimilarityInPlace ==
    LET out == habitat_similarity(an_df, results)
    IN  /\ an_df # NoObject
        /\ results' = out.results
        /\ raised' = out.raised
        /\ an_df' = [columns |-> SelectSeq(an_df.columns,
                                     LAMBDA c : c \in Range(env_features)),
                     rows |-> an_df.rows]
        /\ UNCHANGED << report, viz_df, plots >>
        /\ UNCHANGED genVars
        /\ UNCHANGED mainVars

HabitatSimilarity ==
    AnalyzerCall(habitat_similarity(an_df, results))

SummarizeFindings ==
    AnalyzerCall(summarize_findings(results))

RunFullAnalysis ==
    AnalyzerCall(run_full_analysis(an_df, results))

\* save_results on a writable results directory
SaveResults ==
    /\ an_df # NoObject
    /\ report' = to_json(results)
    /\ raised' = "none"
    /\ UNCHANGED << an_df, results, viz_df, plots >>
    /\ UNCHANGED genVars
    /\ UNCHANGED mainVars

\* plot method i of the renderer
PlotCall(i) ==
    /\ viz_df # NoObject
    /\ \E o \in PlotOutcomes(i, viz_df) :
          /\ raised' = o
          /\ plots' = IF o = "none" THEN plots \cup {Charts[i]} ELSE plots
    /\ UNCHANGED << an_df, results, report, viz_df >>
    /\ UNCHANGED genVars
    /\ UNCHANGED mainVars

PlotOccurrenceByHabitat == PlotCall(1)

PlotHeatmap == PlotCall(2)

PlotEnvironmentalConditions == PlotCall(3)

PlotSpeciesDistribution == PlotCall(4)

PlotCoOccurrence == PlotCall(5)

GenerateAllPlots ==
    /\ viz_df # NoObject
    /\ \E o \in generate_all_plots(viz_df, plots) :
          /\ raised' = o.raised
          /\ plots' = o.plots
    /\ UNCHANGED << an_df, results, report, viz_df >>
    /\ UNCHANGED genVars
    /\ UNCHANGED mainVars

Next ==
    \/ ContingencyAnalysis
    \/ CalculateOccurrenceRates
    \/ HabitatSimilarity
    \/ SummarizeFindings
    \/ RunFullAnalysis
    \/ SaveResults
    \/ PlotOccurrenceByHabitat
    \/ PlotHeatmap
    \/ PlotEnvironmentalConditions
    \/ PlotSpeciesDistribution
    \/ PlotCoOccurrence
    \/ GenerateAllPlots

Spec == Init /\ [][Next]_vars

(***************************************************************************)
(* main.py: main() runs its statements in program order.  pc names the     *)
(* statement reached; an exception leaves main (there is no try/except),   *)
(* which is pc = "aborted".  A statement that touches the file system can  *)
(* fail with an OSError.                                                   *)
(***************************************************************************)
InitMain ==
    /\ stream \in Streams
    /\ n_samples = PipelineSamples
    /\ rng_pos = Seed(0)
    /\ seeded = TRUE
    /\ ret = NoRun
    /\ prev = NoRun
    /\ IdleObjects
    /\ pc = "generate_habitat_data"
    /\ main_df = NoObject
    /\ data_file = NoFile
    /\ raised = "none"

\* an exception propagates out of main
Abort(err) ==
    /\ pc' = "aborted"
    /\ raised' = err

\* df = generate_habitat_data(n_samples=...)
MainGenerateData ==
    LET g == generate_habitat_data(n_samples, rng_pos)
    IN  /\ pc = "generate_habitat_data"
        /\ main_df' = g.df
        /\ rng_pos' = g.pos % Period
        /\ seeded' = (seeded /\ g.pos = rng_pos)
        /\ pc' = "save_data"
        /\ UNCHANGED << stream, n_samples, ret, prev, data_file, raised >>
        /\ UNCHANGED objVars

\* save_data(df, 'data/species_habitat_data.csv')
MainSaveData ==
    /\ pc = "save_data"
    /\ \/ /\ data_file' = to_csv(main_df)
          /\ pc' = "HabitatPreferenceAnalysis"
          /\ UNCHANGED raised
       \/ /\ Abort("OSError")
          /\ UNCHANGED data_file
    /\ UNCHANGED main_df
    /\ UNCHANGED genVars
    /\ UNCHANGED objVars

\* analysis = HabitatPreferenceAnalysis('data/species_habitat_data.csv')
MainLoadAnalysis ==
    /\ pc = "HabitatPreferenceAnalysis"
    /\ \/ /\ read_csv(data_file).raised = "none"
          /\ an_df' = read_csv(data_file).df
          /\ results' = NoResults
          /\ pc' = "run_full_analysis"
          /\ UNCHANGED raised
       \/ /\ Abort("OSError")
          /\ UNCHANGED << an_df, results >>
    /\ UNCHANGED << report, viz_df, plots, main_df, data_file >>
    /\ UNCHANGED genVars

\* main after run_full_analysis has returned or raised out
MainAnalysisEnds(out) ==
    /\ results' = out.results
    /\ raised' = out.raised
    /\ pc' = IF out.raised = "none" THEN "save_results" ELSE "aborted"

\* analysis.run_full_analysis()
MainRunFullAnalysis ==
    /\ pc = "run_full_analysis"
    /\ MainAnalysisEnds(run_full_analysis(an_df, results))
    /\ UNCHANGED << an_df, report, viz_df, plots, main_df, data_file >>
    /\ UNCHANGED genVars

\* save_results carrying on after the report could not be written
MainSaveResultsSwallow ==
    /\ pc = "save_results"
    /\ \/ /\ report' = to_json(results)
          /\ UNCHANGED raised
       \/ /\ raised' = "OSError"
          /\ UNCHANGED report
    /\ pc' = "HabitatVisualization"
    /\ UNCHANGED << an_df, results, viz_df, plots, main_df, data_file >>
    /\ UNCHANGED genVars

\* analysis.save_results('results/analysis_results.json')
MainSaveResults ==
    /\ pc = "save_results"
    /\ \/ /\ report' = to_json(results)
          /\ pc' = "HabitatVisualization"
          /\ UNCHANGED raised
       \/ /\ Abort("OSError")
          /\ UNCHANGED report
    /\ UNCHANGED << an_df, results, viz_df, plots, main_df, data_file >>
    /\ UNCHANGED genVars

\* viz = HabitatVisualization('data/species_habitat_data.csv')
MainLoadVisualization ==
    /\ pc = "HabitatVisualization"
    /\ \/ /\ read_csv(data_file).raised = "none"
          /\ viz_df' = read_csv(data_file).df
          /\ pc' = "generate_all_plots"
          /\ UNCHANGED raised
       \/ /\ Abort("OSError")
          /\ UNCHANGED viz_df
    /\ UNCHANGED << an_df, results, report, plots, main_df, data_file >>
    /\ UNCHANGED genVars

\* plt.savefig failing at chart i, the charts before it written
SavefigFailures(written) ==
    { [raised |-> "OSError",
       plots |-> written \cup { Charts[j] : j \in 1 .. i - 1 }]
      : i \in DOMAIN Charts }

\* viz.generate_all_plots()
MainGenerateAllPlots ==
    /\ pc = "generate_all_plots"
    /\ \E o \in generate_all_plots(viz_df, plots) \cup SavefigFailures(plots) :
          /\ plots' = o.plots
          /\ raised' = o.raised
          /\ pc' = IF o.raised = "none" THEN "done" ELSE "aborted"
    /\ UNCHANGED << an_df, results, report, viz_df, main_df, data_file >>
    /\ UNCHANGED genVars

NextMain ==
    \/ MainGenerateData
    \/ MainSaveData
    \/ MainLoadAnalysis
    \/ MainRunFullAnalysis
    \/ MainSaveResults
    \/ MainLoadVisualization
    \/ MainGenerateAllPlots

SpecMain == InitMain /\ [][NextMain]_vars

(***************************************************************************)
(* Claims about generation runs (SpecGen)                                  *)
(***************************************************************************)
\* the number of rows of a DataFrame with the given water type
GroupSize(df, wt) ==
    Len(SelectSeq(df.rows, LAMBDA r : r.water_body_type = wt))

\* the water types of the rows, in row order, without repetition of runs
InGenerationOrder(df) ==
    \A i, j \in DOMAIN df.rows :
        i < j =>
            \E a, b \in DOMAIN water_types :
                /\ a <= b
                /\ df.rows[i].water_body_type = water_types[a]
                /\ df.rows[j].water_body_type = water_types[b]

\* C1: generate_habitat_data(n) returns exactly n observations, in the fixed
\* generation order of the three habitat types, with group sizes that differ
\* by at most one; for n = 500 the group sizes are 166, 166, 168.
C1_ExactlyNSplitEvenly ==
    ret # NoRun =>
        /\ Len(ret.df.rows) = ret.n
        /\ InGenerationOrder(ret.df)
        /\ \A a, b \in Range(water_types) :
               GroupSize(ret.df, a) - GroupSize(ret.df, b) \in -1 .. 1
        /\ ret.n = DefaultSamples =>
               [h \in DOMAIN water_types |-> GroupSize(ret.df, water_types[h])]
                   = << 166, 166, 168 >>

\* C5 as stated: any two generation runs with the same n_samples return
\* identical Datasets, two invocations one after the other in one loaded
\* module included.
C5_AnyTwoRunsIdentical ==
    (ret # NoRun /\ prev # NoRun) => ret.df = prev.df

\* C5 amended: two generation runs with the same n_samples that each start
\* from the generator as np.random.seed(42) leaves it return identical
\* Datasets.
C5_SeededRunsIdentical ==
    (ret # NoRun /\ prev # NoRun /\ ret.at_seed /\ prev.at_seed)
        => ret.df = prev.df

\* two runs from the seeded generator that both drew observations
C5_TwoSeededRuns ==
    /\ ret # NoRun
    /\ prev # NoRun
    /\ ret.at_seed
    /\ prev.at_seed
    /\ ret.n = prev.n
    /\ Len(ret.df.rows) > 0
    /\ ~seeded

\* C8: every observation of a generated Dataset has salinity_ppt in [0, 40],
\* pH in [6, 9], temperature_C in [0, 35], dissolved_oxygen_mg_L in [2, 12]
\* and presence indicators that are exactly 0 or 1.
C8_ValuesInRange ==
    ret # NoRun =>
        \A i \in DOMAIN ret.df.rows :
            LET r == ret.df.rows[i]
            IN  /\ r.salinity_ppt \in 0 .. 4000
                /\ r.pH \in 600 .. 900
                /\ r.temperature_C \in 0 .. 3500
                /\ r.dissolved_oxygen_mg_L \in 200 .. 1200
                /\ r.RGS_present \in {0, 1}
                /\ r.RES_present \in {0, 1}
                /\ r.PH_present \in {0, 1}

\* a generated Dataset in which a draw below and a draw above the range were
\* clipped, and both presence values occur
C8_ClippedObservations ==
    /\ ret # NoRun
    /\ \E i, j \in DOMAIN ret.df.rows :
           /\ ret.df.rows[i].pH = 600
           /\ ret.df.rows[i].salinity_ppt = 0
           /\ ret.df.rows[j].temperature_C = 3500
           /\ ret.df.rows[i].RGS_present # ret.df.rows[j].RGS_present

(***************************************************************************)
(* Claims about the analyzer and the renderer (Spec)                       *)
(***************************************************************************)
Analyzer == an_df # NoObject

Has(key) == key \in DOMAIN results

\* the habitat types of the analyzer's dataset
HabitatsOf(df) == { df.rows[i].water_body_type : i \in DOMAIN df.rows }

\* the rows of a habitat type, and those among them with the species present
RowsOf(df, h) == { i \in DOMAIN df.rows : df.rows[i].water_body_type = h }

PresentIn(df, sp, h) ==
    { i \in RowsOf(df, h) : df.rows[i][PresentCol(sp)] = 1 }

\* the row at which a habitat type first appears
FirstRow(df, h) == CHOOSE i \in RowsOf(df, h) : \A j \in RowsOf(df, h) : i <= j

\* every expected column is there and there is at least one row
WellFormed(df) ==
    /\ \A j \in DOMAIN Columns : j > 1 => HasCol(df, Columns[j])
    /\ df.rows # << >>

\* the presence indicator of a species is the same in every row
Uniform(df, sp) ==
    /\ WellFormed(df)
    /\ Cardinality({ df.rows[i][PresentCol(sp)] : i \in DOMAIN df.rows }) = 1

\* C2: contingency_analysis raises and stores no contingency result whenever
\* the presence indicator of some species is uniformly 0 or uniformly 1; it
\* never returns a statistic and significance flag for such a species.
C2_DegenerateTableRejected ==
    (Analyzer /\ \E i \in DOMAIN species : Uniform(an_df, species[i]))
        => ~Has("contingency_analysis")

\* C3: for every species summarize_findings selects a habitat type whose
\* occurrence rate is maximal, among equal maxima the one that appears first
\* in the dataset, and reports that habitat's occurrence rate.
C3_FirstMaximumPreferred ==
    (Analyzer /\ Has("summary")) =>
        \A s \in DOMAIN species :
            LET sp   == species[s]
                pref == results["summary"][sp].preferred_habitat
                rate == results["summary"][sp].preference_rate
                occ(h) == Cardinality(PresentIn(an_df, sp, h))
                n(h)   == Cardinality(RowsOf(an_df, h))
            IN  /\ pref \in HabitatsOf(an_df)
                /\ rate.num * n(pref) = 100 * occ(pref) * rate.den
                /\ \A h \in HabitatsOf(an_df) :
                       /\ occ(h) * n(pref) <= occ(pref) * n(h)
                       /\ occ(h) * n(pref) = occ(pref) * n(h)
                              => FirstRow(an_df, pref) <= FirstRow(an_df, h)

\* a summary over a dataset in which "vegetated pond" appears before "A",
\* both with the maximal rate of RES, and "vegetated pond" is preferred;
\* RGS is present in every observation of one habitat only (rate 100)
C3_TieBrokenByAppearance ==
    /\ Analyzer
    /\ Has("summary")
    /\ {"A", "vegetated pond"} \subseteq HabitatsOf(an_df)
    /\ FirstRow(an_df, "vegetated pond") < FirstRow(an_df, "A")
    /\ \A h \in {"A", "vegetated pond"} :
           PresentIn(an_df, "RES", h) = RowsOf(an_df, h)
    /\ results["summary"]["RES"].preferred_habitat = "vegetated pond"
    /\ results["summary"]["RGS"].preference_rate = [num |-> 100, den |-> 1]
    /\ \E h \in HabitatsOf(an_df) :
           /\ results["summary"]["RGS"].preferred_habitat = h
           /\ \A g \in HabitatsOf(an_df) \ {h} : PresentIn(an_df, "RGS", g) = {}

\* C4: on a non-empty dataset calculate_occurrence_rates emits exactly one
\* record per (species, habitat type) pair, with 0 <= occurrences <=
\* n_observations, n_observations > 0, a rate in [0, 100], and per species
\* the occurrences add up to the number of rows with the indicator set.
C4_OccurrenceRecords ==
    (Analyzer /\ Has("occurrence_rates") /\ an_df.rows # << >>) =>
        LET recs == results["occurrence_rates"]
        IN  /\ \A s \in DOMAIN species : \A h \in HabitatsOf(an_df) :
                   Cardinality({ k \in DOMAIN recs :
                                    /\ recs[k].species = species[s]
                                    /\ recs[k].water_body_type = h }) = 1
            /\ Len(recs) = Len(species) * Cardinality(HabitatsOf(an_df))
            /\ \A k \in DOMAIN recs :
                   /\ recs[k].n_observations > 0
                   /\ recs[k].occurrences \in 0 .. recs[k].n_observations
                   /\ recs[k].occurrence_rate.num >= 0
                   /\ recs[k].occurrence_rate.num
                          <= 100 * recs[k].occurrence_rate.den
            /\ \A s \in DOMAIN species :
                   SumSeq([k \in DOMAIN recs |->
                              IF recs[k].species = species[s]
                              THEN recs[k].occurrences ELSE 0])
                     = Cardinality({ i \in DOMAIN an_df.rows :
                                       an_df.rows[i][PresentCol(species[s])] = 1 })

\* occurrence rates over three rows and two habitat types, one of them with
\* a species present in one of its two observations
C4_RatesOverTwoHabitats ==
    /\ Analyzer
    /\ Has("occurrence_rates")
    /\ Len(an_df.rows) = 3
    /\ Cardinality(HabitatsOf(an_df)) = 2
    /\ \E k \in DOMAIN results["occurrence_rates"] :
           /\ results["occurrence_rates"][k].occurrences = 1
           /\ results["occurrence_rates"][k].n_observations = 2

\* an expected column is missing or the table has no rows
Malformed(df) == ~WellFormed(df)

\* C6: on a malformed dataset run_full_analysis raises before any part of
\* the result is populated: a fresh analyzer's results stay empty and no
\* report is persisted.
C6_MalformedLeavesNoResults ==
    [][(RunFullAnalysis /\ DOMAIN results = {} /\ Malformed(an_df))
          => (raised' # "none" /\ DOMAIN results' = {} /\ report' = report)]_vars

\* C9: no analyzer operation and no renderer plot operation changes the
\* loaded dataset, in any order and number of invocations.
C9_DatasetNeverMutated ==
    [][an_df' = an_df /\ viz_df' = viz_df]_vars

\* every analysis has run and the report is persisted, over three rows
C9_AllAnalysesRun ==
    /\ Analyzer
    /\ Len(an_df.rows) = 3
    /\ DOMAIN results = { "contingency_analysis", "occurrence_rates",
                          "habitat_characteristics", "summary" }
    /\ report # NoFile
    /\ DOMAIN report = DOMAIN results

\* C10: for every species with a contingency result, degrees_of_freedom is
\* (rows - 1) * (cols - 1) for the habitat types and presence values that
\* occur in the dataset, and chi2_statistic is non-negative.
C10_DofAndStatistic ==
    (Analyzer /\ Has("contingency_analysis")) =>
        \A s \in DOMAIN species :
            LET e == results["contingency_analysis"][species[s]]
                rows == Cardinality(HabitatsOf(an_df))
                cols == Cardinality({ an_df.rows[i][PresentCol(species[s])] :
                                         i \in DOMAIN an_df.rows })
            IN  /\ e.degrees_of_freedom = (rows - 1) * (cols - 1)
                /\ e.chi2_statistic.num >= 0
                /\ e.chi2_statistic.den > 0

\* a contingency result of a 3 x 2 table (two degrees of freedom) with a
\* positive statistic
C10_ThreeByTwoTable ==
    /\ Analyzer
    /\ Has("contingency_analysis")
    /\ results["contingency_analysis"]["RGS"].degrees_of_freedom = 2
    /\ results["contingency_analysis"]["RGS"].chi2_statistic.num > 0

(***************************************************************************)
(* Claims about the pipeline (SpecMain)                                    *)
(***************************************************************************)
\* C7: main runs generate -> analyze -> visualize: the analyzer acts only
\* once the dataset is generated and persisted, the renderer acts only once
\* the report is persisted, a failure aborts main, and no statement of main
\* executes after an abort.
C7_StagesInOrderAbortOnFailure ==
    [][/\ pc # "aborted"
       /\ (an_df' # an_df \/ DOMAIN results' # DOMAIN results
                          \/ report' # report)
             => /\ main_df # NoObject
                /\ data_file = to_csv(main_df)
       /\ (viz_df' # viz_df \/ plots' # plots)
             => /\ data_file # NoFile
                /\ DOMAIN results # {}
                /\ report = to_json(results)
       /\ raised' # "none" => pc' = "aborted"]_vars

\* a complete run: dataset persisted, report persisted, five charts written
C7_PipelineCompleted ==
    /\ pc = "done"
    /\ raised = "none"
    /\ data_file = to_csv(main_df)
    /\ report = to_json(results)
    /\ plots = Range(Charts)

(***************************************************************************)
(* Claims about undefined statistics, the chart set and the order of the   *)
(* analyses (Spec)                                                         *)
(***************************************************************************)
StdFields ==
    { "salinity_std", "pH_std", "temperature_std", "dissolved_oxygen_std" }

\* the habitat types of the analyzer's dataset with exactly one observation
SingleObservationHabitats ==
    { h \in HabitatsOf(an_df) : Cardinality(RowsOf(an_df, h)) = 1 }

\* C11: for a habitat type with exactly one observation habitat_similarity
\* stores NaN, never 0, as the standard deviation of every environmental
\* covariate in results['habitat_characteristics'], and save_results writes
\* that NaN to the report.
C11_SingleObservationStdUndefined ==
    Analyzer =>
        /\ Has("habitat_characteristics") =>
               \A h \in SingleObservationHabitats : \A f \in StdFields :
                   results["habitat_characteristics"][h][f] = NaN
        /\ (report # NoFile /\ "habitat_characteristics" \in DOMAIN report) =>
               \A h \in SingleObservationHabitats : \A f \in StdFields :
                   report["habitat_characteristics"][h][f] = NaN

\* a persisted report over a dataset with one habitat type of a single
\* observation and another of two observations, whose deviations are defined
C11_ReportWithSingleObservation ==
    /\ Analyzer
    /\ Has("habitat_characteristics")
    /\ report # NoFile
    /\ "habitat_characteristics" \in DOMAIN report
    /\ \E h \in SingleObservationHabitats :
           report["habitat_characteristics"][h]["temperature_std"] = NaN
    /\ \E g \in HabitatsOf(an_df) :
           /\ Cardinality(RowsOf(an_df, g)) = 2
           /\ report["habitat_characteristics"][g]["temperature_std"].den > 0
           /\ report["habitat_characteristics"][g]["temperature_std"].num > 0
\* C12: on every dataset that has all the columns and at least one habitat
\* type, whatever its habitat labels, generate_all_plots completes and the
\* five chart files are written; it never stops after some of them.
C12_AllChartsWritten ==
    [][(GenerateAllPlots /\ WellFormed(viz_df))
          => (raised' = "none" /\ plots' = Range(Charts))]_vars
\* C13: summarize_findings invoked while results['occurrence_rates'] is not
\* populated raises and leaves self.results as it was (no 'summary' key is
\* added); a summary is never there without the occurrence rates; and
\* run_full_analysis invokes it after calculate_occurrence_rates, so that on
\* a well-formed dataset whose occurrence rates are not populated yet it
\* ends without an error with both keys populated.
C13_SummaryNeedsOccurrenceRates ==
    [][/\ (~Has("occurrence_rates") /\ SummarizeFindings)
             => /\ raised' # "none"
                /\ DOMAIN results' = DOMAIN results
                /\ \A k \in DOMAIN results : results'[k] = results[k]
                /\ "summary" \notin DOMAIN results'
       /\ "summary" \in DOMAIN results' => "occurrence_rates" \in DOMAIN results'
       /\ (~Has("occurrence_rates") /\ Analyzer /\ WellFormed(an_df)
                                     /\ RunFullAnalysis)
             => /\ raised' = "none"
                /\ {"occurrence_rates", "summary"} \subseteq DOMAIN results']_vars

\* summarize_findings has raised on a well-formed dataset whose other two
\* analyses have run: only the missing occurrence rates can be the cause
C13_SummaryRaisedWithoutRates ==
    /\ Analyzer
    /\ WellFormed(an_df)
    /\ raised = "KeyError"
    /\ DOMAIN results = {"contingency_analysis", "habitat_characteristics"}

====
